---- MODULE Spec2Model ----
(***************************************************************************)
(* Model of the conversation core of src/App.tsx: the useChatHandlers hook *)
(* (handleSendMessage, handleNewChat, handleRegenerate, handleFeedback)    *)
(* together with the React state it is given by App (message, messages,    *)
(* isLoading, chatRef).                                                    *)
(*                                                                         *)
(* Every handler invocation is one atomic step: React batches the state    *)
(* updates of one event and re-renders before the next event, so each      *)
(* handler closes over the current state.  handleSendMessage suspends at   *)
(* the await of line 66; the suspended continuation is an element of       *)
(* calls, resumed by Respond (lines 67-71, 78-80) or Fail (lines 73-80).   *)
(*                                                                         *)
(* The handlers are modelled as the hook exposes them: any of them can be   *)
(* invoked in any state with any turn id of the transcript.  The disabled  *)
(* attributes of ChatInput and the conditional buttons of MessageItem are  *)
(* presentation and are not part of the model.  calls[..].stale records    *)
(* that handleNewChat ran while the call was outstanding; last records the *)
(* handler that ran last; dropped is the set of session handles that       *)
(* handleNewChat has discarded; fresh says that handleNewChat has run and  *)
(* ai.chats.create has not been called since.  No handler reads them.      *)
(*                                                                         *)
(* Text is a sequence of characters.  The alphabet is " " (whitespace),    *)
(* "a" and "b" (ordinary characters) and "M", which stands for the         *)
(* thirteen characters "[REGENERATED]"; the regenerate marker              *)
(* "[REGENERATED] " is therefore <<"M", " ">>.                             *)
(***************************************************************************)
EXTENDS Integers, Sequences, FiniteSets, TLC

VARIABLES message, messages, isLoading, chatRef, calls, nSessions, now,
          nOps, last, dropped, fresh

vars == <<message, messages, isLoading, chatRef, calls, nSessions, now,
          nOps, last, dropped, fresh>>

\* ---------------------------------------------------------------- bounds
MaxPad == 1
MaxOps == 3
StartClock == 10
MaxContentLen == 4

\* The clock advances by at most one reading over a run: two submissions can
\* read the same instant or adjacent instants.
MaxClock == StartClock + 1

\* ------------------------------------------------------------------ text
Whitespace == {" "}

Blanks(n) == [i \in 1..n |-> " "]

Words == {<<>>, <<"a">>}

\* what the user can have typed: nothing, whitespace only, a padded word
InputTexts == {<<>>} \cup {Blanks(MaxPad) \o w \o Blanks(MaxPad) : w \in Words}

Responses == {<<>>, <<"b">>}

Apology == <<"S", "o", "r", "r", "y">>

Marker == <<"M", " ">>

TrimKeepsBlanks(s) == s

RECURSIVE TrimStart(_)
TrimStart(s) ==
    IF s # <<>> /\ Head(s) \in Whitespace THEN TrimStart(Tail(s)) ELSE s

RECURSIVE TrimEnd(_)
TrimEnd(s) ==
    IF s # <<>> /\ s[Len(s)] \in Whitespace
    THEN TrimEnd(SubSeq(s, 1, Len(s) - 1)) ELSE s

TrimOnlyStart(s) == TrimStart(s)

Trim(s) == TrimEnd(TrimStart(s))

\* ------------------------------------------------------------ transcript
NoChat == 0

SeedMessages ==
    << [id |-> 1, type |-> "user", content |-> <<"a">>,
        feedback |-> "absent", isLoading |-> FALSE],
       [id |-> 2, type |-> "bot", content |-> <<"b">>,
        feedback |-> "absent", isLoading |-> FALSE] >>

NoId == 0

Event(op, outcome, raw, text, stale, history) ==
    [op |-> op, outcome |-> outcome, raw |-> raw, text |-> text, stale |-> stale,
     history |-> history, id |-> NoId, kind |-> "none", was |-> <<>>]

\* a turn action: its messageId, its feedbackType, and the feedback the
\* turns had before it
TurnEvent(op, messageId, feedbackType, was) ==
    [Event(op, "done", <<>>, <<>>, FALSE, <<>>)
        EXCEPT !.id = messageId, !.kind = feedbackType, !.was = was]

NoEvent == Event("init", "none", <<>>, <<>>, FALSE, <<>>)

UserTurn(id, text) ==
    [id |-> id, type |-> "user", content |-> text,
     feedback |-> "absent", isLoading |-> FALSE]

PendingTurn(id) ==
    [id |-> id, type |-> "bot", content |-> <<>>,
     feedback |-> "absent", isLoading |-> TRUE]

AppendPairDropsPrev(prev, text, t1, t2) ==
    << UserTurn(t1, text), PendingTurn(t2 + 1) >>

AppendPair(prev, text, t1, t2) ==
    prev \o << UserTurn(t1, text), PendingTurn(t2 + 1) >>

ResolveKeepsPending(msgs, text) ==
    [i \in 1..Len(msgs) |->
        IF msgs[i].isLoading THEN [msgs[i] EXCEPT !.content = text] ELSE msgs[i]]

ResolvePending(msgs, text) ==
    [i \in 1..Len(msgs) |->
        IF msgs[i].isLoading
        THEN [msgs[i] EXCEPT !.content = text, !.isLoading = FALSE]
        ELSE msgs[i]]

HistoryAllUser(msgs) ==
    [i \in 1..Len(msgs) |-> [role |-> "user", text |-> msgs[i].content]]

CreateHistory(msgs) ==
    [i \in 1..Len(msgs) |->
        [role |-> IF msgs[i].type = "user" THEN "user" ELSE "model",
         text |-> msgs[i].content]]

SendGuardIgnoresLoading(msg, loading) == Trim(msg) # <<>>

SendGuard(msg, loading) == ~(Trim(msg) = <<>> \/ loading)

\* --------------------------------------------------------- turn actions
RECURSIVE IndexOf(_, _, _)
IndexOf(s, pat, i) ==
    IF i + Len(pat) - 1 > Len(s) THEN 0
    ELSE IF SubSeq(s, i, i + Len(pat) - 1) = pat THEN i
    ELSE IndexOf(s, pat, i + 1)

ReplaceFirst(s, pat, by) ==
    LET i == IndexOf(s, pat, 1)
    IN  IF i = 0 THEN s
        ELSE SubSeq(s, 1, i - 1) \o by \o SubSeq(s, i + Len(pat), Len(s))

Regenerated(content) == Marker \o ReplaceFirst(content, Marker, <<>>)

ToggledNeverClears(feedback, feedbackType) == feedbackType

Toggled(feedback, feedbackType) ==
    IF feedback = feedbackType THEN "absent" ELSE feedbackType

Ids(msgs) == {msgs[i].id : i \in 1..Len(msgs)}

Pending(msgs) == {i \in 1..Len(msgs) : msgs[i].isLoading}

\* ------------------------------------------------------------------ init
Init ==
    /\ message = <<>>
    /\ messages = SeedMessages
    /\ isLoading = FALSE
    /\ chatRef = NoChat
    /\ calls = {}
    /\ nSessions = 0
    /\ now = StartClock
    /\ nOps = 0
    /\ last = NoEvent
    /\ dropped = {}
    /\ fresh = FALSE

\* --------------------------------------------------------------- actions
\* Date.now(): a reading is never below the previous one.
ClockReadings(from) == {t \in from..(from + 1) : t <= MaxClock}

setMessage(text) ==
    /\ UNCHANGED <<dropped, fresh>>
    /\ message' = text
    /\ UNCHANGED <<messages, isLoading, chatRef, calls, nSessions, now,
                   nOps, last>>

SendRejected ==
    /\ UNCHANGED <<dropped, fresh>>
    /\ ~SendGuard(message, isLoading)
    /\ last' = Event("submit", "rejected", message, <<>>, FALSE, <<>>)
    /\ UNCHANGED <<message, messages, isLoading, chatRef, calls, nSessions, now,
                   nOps>>

SendCreateThrows(t1, t2) ==
    /\ fresh' = FALSE
    /\ UNCHANGED dropped
    /\ SendGuard(message, isLoading)
    /\ chatRef = NoChat
    /\ messages' = ResolvePending(AppendPair(messages, Trim(message), t1, t2), Apology)
    /\ message' = <<>>
    /\ isLoading' = FALSE
    /\ now' = t2
    /\ nOps' = nOps + 1
    /\ last' = Event("submit", "createFailed", message, Trim(message), FALSE,
                     CreateHistory(messages))
    /\ UNCHANGED <<chatRef, calls, nSessions>>

SendAwaitAlwaysCreates(t1, t2) ==
    /\ fresh' = FALSE
    /\ UNCHANGED dropped
    /\ SendGuard(message, isLoading)
    /\ isLoading' = TRUE
    /\ messages' = AppendPair(messages, Trim(message), t1, t2)
    /\ message' = <<>>
    /\ nSessions' = nSessions + 1
    /\ chatRef' = nSessions + 1
    /\ last' = Event("submit", "created", message, Trim(message), FALSE,
                     CreateHistory(messages))
    /\ calls' = calls \cup {[n |-> nOps + 1, session |-> chatRef',
                             text |-> Trim(message), stale |-> FALSE]}
    /\ now' = t2
    /\ nOps' = nOps + 1

SendAwait(t1, t2) ==
    /\ fresh' = (fresh /\ chatRef # NoChat)
    /\ UNCHANGED dropped
    /\ SendGuard(message, isLoading)
    /\ isLoading' = TRUE
    /\ messages' = AppendPair(messages, Trim(message), t1, t2)
    /\ message' = <<>>
    /\ IF chatRef = NoChat
       THEN /\ nSessions' = nSessions + 1
            /\ chatRef' = nSessions + 1
            /\ last' = Event("submit", "created", message, Trim(message), FALSE,
                             CreateHistory(messages))
       ELSE /\ UNCHANGED <<nSessions, chatRef>>
            /\ last' = Event("submit", "reused", message, Trim(message), FALSE, <<>>)
    /\ calls' = calls \cup {[n |-> nOps + 1, session |-> chatRef',
                             text |-> Trim(message), stale |-> FALSE]}
    /\ now' = t2
    /\ nOps' = nOps + 1

handleSendMessage ==
    \/ SendRejected
    \/ /\ nOps < MaxOps
       /\ \E t1 \in ClockReadings(now) : \E t2 \in ClockReadings(t1) :
            \/ SendCreateThrows(t1, t2)
            \/ SendAwait(t1, t2)

FailWithoutFinally(c) ==
    /\ UNCHANGED <<dropped, fresh>>
    /\ messages' = ResolvePending(messages, Apology)
    /\ calls' = calls \ {c}
    /\ last' = Event("fail", "done", <<>>, c.text, c.stale, <<>>)
    /\ UNCHANGED <<message, isLoading, chatRef, nSessions, now, nOps>>

Respond(c, aiResponseText) ==
    /\ UNCHANGED <<dropped, fresh>>
    /\ messages' = ResolvePending(messages, aiResponseText)
    /\ isLoading' = FALSE
    /\ calls' = calls \ {c}
    /\ last' = Event("respond", "done", aiResponseText, c.text, c.stale, <<>>)
    /\ UNCHANGED <<message, chatRef, nSessions, now, nOps>>

Fail(c) ==
    /\ UNCHANGED <<dropped, fresh>>
    /\ messages' = ResolvePending(messages, Apology)
    /\ isLoading' = FALSE
    /\ calls' = calls \ {c}
    /\ last' = Event("fail", "done", <<>>, c.text, c.stale, <<>>)
    /\ UNCHANGED <<message, chatRef, nSessions, now, nOps>>

Settle == \E c \in calls : \/ \E r \in Responses : Respond(c, r)
                           \/ Fail(c)

\* "again" when handleNewChat runs in the very state a handleNewChat left
Repeated == IF last.op = "reset" /\ message = <<>> THEN "again" ELSE "done"

handleNewChatClearsLoading ==
    /\ messages' = <<>>
    /\ message' = <<>>
    /\ chatRef' = NoChat
    /\ isLoading' = FALSE
    /\ calls' = {[c EXCEPT !.stale = TRUE] : c \in calls}
    /\ last' = Event("reset", Repeated, <<>>, <<>>, FALSE, <<>>)
    /\ dropped' = dropped \cup ({chatRef} \ {NoChat})
    /\ fresh' = TRUE
    /\ UNCHANGED <<nSessions, now, nOps>>

handleNewChatRestoresSeed ==
    /\ messages' = IF messages = <<>> THEN SeedMessages ELSE <<>>
    /\ message' = <<>>
    /\ chatRef' = NoChat
    /\ calls' = {[c EXCEPT !.stale = TRUE] : c \in calls}
    /\ last' = Event("reset", Repeated, <<>>, <<>>, FALSE, <<>>)
    /\ dropped' = dropped \cup ({chatRef} \ {NoChat})
    /\ fresh' = TRUE
    /\ UNCHANGED <<isLoading, nSessions, now, nOps>>

handleNewChatKeepsSession ==
    /\ messages' = <<>>
    /\ message' = <<>>
    /\ chatRef' = chatRef
    /\ calls' = {[c EXCEPT !.stale = TRUE] : c \in calls}
    /\ last' = Event("reset", Repeated, <<>>, <<>>, FALSE, <<>>)
    /\ dropped' = dropped \cup ({chatRef} \ {NoChat})
    /\ fresh' = TRUE
    /\ UNCHANGED <<isLoading, nSessions, now, nOps>>

\* setMessages([]), setMessage(''), chatRef.current = null; isLoading and
\* the outstanding sendMessage are left as they are
handleNewChat ==
    /\ messages' = <<>>
    /\ message' = <<>>
    /\ chatRef' = NoChat
    /\ calls' = {[c EXCEPT !.stale = TRUE] : c \in calls}
    /\ last' = Event("reset", Repeated, <<>>, <<>>, FALSE, <<>>)
    /\ dropped' = dropped \cup ({chatRef} \ {NoChat})
    /\ fresh' = TRUE
    /\ UNCHANGED <<isLoading, nSessions, now, nOps>>

handleRegenerate(messageId) ==
    /\ UNCHANGED <<dropped, fresh>>
    /\ nOps < MaxOps
    /\ nOps' = nOps + 1
    /\ messages' = [i \in 1..Len(messages) |->
                       IF messages[i].id = messageId
                       THEN [messages[i] EXCEPT !.content = Regenerated(@)]
                       ELSE messages[i]]
    /\ last' = TurnEvent("regenerate", messageId, "none", <<>>)
    /\ UNCHANGED <<message, isLoading, chatRef, calls, nSessions, now>>

handleFeedback(messageId, feedbackType) ==
    /\ UNCHANGED <<dropped, fresh>>
    /\ nOps < MaxOps
    /\ nOps' = nOps + 1
    /\ messages' = [i \in 1..Len(messages) |->
                       IF messages[i].id = messageId
                       THEN [messages[i] EXCEPT !.feedback = Toggled(@, feedbackType)]
                       ELSE messages[i]]
    /\ last' = TurnEvent("feedback", messageId, feedbackType,
                         [i \in 1..Len(messages) |-> messages[i].feedback])
    /\ UNCHANGED <<message, isLoading, chatRef, calls, nSessions, now>>

\* the ways navigator.clipboard.writeText(content) settles
ClipboardWrite == {"resolved", "rejected"}

\* the ways navigator.share(...) settles when the platform has it
ShareCall == {"resolved", "rejected"}

\* returns the promise of writeText; the caller decides what to do with it
handleCopy(content) ==
    /\ last' = Event("copy", "returned", <<>>, <<>>, FALSE, <<>>)
    /\ UNCHANGED <<message, messages, isLoading, chatRef, calls, nSessions,
                   now, nOps, dropped, fresh>>

\* with navigator.share: share(...).catch(console.error), a rejection is
\* logged; without it: handleCopy(content).then(alert), a rejection of the
\* write has no handler.  "done" is either call resolving.
handleShare(content) ==
    /\ \/ \E r \in ShareCall :
              last' = Event("share", IF r = "resolved" THEN "done" ELSE "logged",
                            <<>>, <<>>, FALSE, <<>>)
       \/ \E w \in ClipboardWrite :
              last' = Event("share",
                            IF w = "resolved" THEN "done" ELSE "unhandledRejection",
                            <<>>, <<>>, FALSE, <<>>)
    /\ UNCHANGED <<message, messages, isLoading, chatRef, calls, nSessions,
                   now, nOps, dropped, fresh>>

\* the copy and share buttons exist on resolved Assistant turns; the text
\* handed over is that of the latest one
Resolved(msgs) == {j \in 1..Len(msgs) : msgs[j].type = "bot" /\ ~msgs[j].isLoading}

Shareable(msgs) ==
    {msgs[i].content : i \in {j \in Resolved(msgs) : \A k \in Resolved(msgs) : k <= j}}

Next ==
    \/ \E text \in InputTexts : setMessage(text)
    \/ handleSendMessage
    \/ Settle
    \/ handleNewChat
    \/ \E id \in Ids(messages) : handleRegenerate(id)
    \/ \E id \in Ids(messages), k \in {"Like", "Dislike"} : handleFeedback(id, k)

Spec == Init /\ [][Next]_vars

LiveSpec == Spec /\ WF_vars(Settle)

(***************************************************************************)
(* Every operation of the hook: Next together with copy and share, which   *)
(* touch no state of the hook.                                             *)
(***************************************************************************)
FullNext ==
    \/ Next
    \/ \E content \in Shareable(messages) : handleCopy(content)
    \/ \E content \in Shareable(messages) : handleShare(content)

FullSpec == Init /\ [][FullNext]_vars

\* ------------------------------------------- turn actions on any content
\* The remote collaborator can answer with any text, also one that holds the
\* marker.  TurnInit is the state after New Chat, a submit of "a" and a
\* response r, for every r of Contents; TurnNext is the turn actions.
ContentChars == {"M", " ", "b"}

RECURSIVE SeqsUpTo(_, _)
SeqsUpTo(S, n) ==
    IF n = 0 THEN {<<>>}
    ELSE LET shorter == SeqsUpTo(S, n - 1)
         IN  shorter \cup
             {Append(t, c) : t \in {u \in shorter : Len(u) = n - 1}, c \in S}

Contents == SeqsUpTo(ContentChars, MaxContentLen)

TurnInit ==
    \E r \in Contents :
        /\ message = <<>>
        /\ messages = ResolvePending(
                          AppendPair(<<>>, <<"a">>, StartClock, StartClock), r)
        /\ isLoading = FALSE
        /\ chatRef = 1
        /\ calls = {}
        /\ nSessions = 1
        /\ now = StartClock
        /\ nOps = 0
        /\ last = Event("respond", "done", r, <<"a">>, FALSE, <<>>)
        /\ dropped = {}
        /\ fresh = FALSE

TurnNext ==
    \/ \E id \in Ids(messages) : handleRegenerate(id)
    \/ \E id \in Ids(messages), k \in {"Like", "Dislike"} : handleFeedback(id, k)

TurnSpec == TurnInit /\ [][TurnNext]_vars

\* ---------------------------------------------------------------- claims
AllBlank(s) == \A i \in 1..Len(s) : s[i] \in Whitespace

\* t is raw with its leading and trailing whitespace removed
IsTrimOf(t, raw) ==
    /\ t = <<>> \/ (t[1] \notin Whitespace /\ t[Len(t)] \notin Whitespace)
    /\ \E i \in 0..Len(raw) : \E j \in 0..Len(raw) :
          raw = Blanks(i) \o t \o Blanks(j)

\* a step of handleSendMessage (a rejected invocation that repeats the previous
\* rejected one changes nothing at all and is a stuttering step)
SubmitStep == last' # last /\ last'.op = "submit"

FailStep == calls' # calls /\ last'.op = "fail"

CreateFailedStep == last' # last /\ last'.outcome = "createFailed"

RespondStep == calls' # calls /\ last'.op = "respond"

\* C1: submitting (isLoading) is true if and only if exactly one turn is
\* pending, in every reachable state.
C1_SingleFlight == isLoading <=> (Cardinality(Pending(messages)) = 1)

\* C2: all turn ids in the transcript are pairwise distinct.
C2_UniqueIds ==
    \A i \in 1..Len(messages) : \A j \in 1..Len(messages) :
        i # j => messages[i].id # messages[j].id

\* C3: right after a reset the transcript is empty, submitting is false and
\* the session handle is absent.
C3_ResetPostcondition ==
    last.op = "reset" => (messages = <<>> /\ ~isLoading /\ chatRef = NoChat)

\* C4: when a submit creates the remote session, the history given to the
\* creation is the transcript as it was before the submit appended anything:
\* same length and order, user turns as role user, assistant turns as role
\* model, content verbatim, no pending turn, and neither the submitted text's
\* turn nor its placeholder.
C4_HistoryReconstruction ==
    [][ (SubmitStep /\ last'.outcome \in {"created", "createFailed"}) =>
          /\ chatRef = NoChat
          /\ Len(last'.history) = Len(messages)
          /\ Len(last'.history) = Len(messages') - 2
          /\ \A i \in 1..Len(messages) :
                /\ ~messages[i].isLoading
                /\ last'.history[i].text = messages[i].content
                /\ (messages[i].type = "user") <=> (last'.history[i].role = "user")
                /\ (messages[i].type = "bot") <=> (last'.history[i].role = "model")
      ]_vars

C4_Witness ==
    /\ last.op = "submit" /\ last.outcome = "created"
    /\ Len(last.history) = 2
    /\ last.history[1].role = "user" /\ last.history[2].role = "model"

\* C5 (as stated): once a failure of session creation or of the send call is
\* handled, the last two turns are the user turn X and its assistant turn
\* holding the apology, not pending, and submitting is false.
C5_FailureOutcome ==
    (last.op = "fail" \/ last.outcome = "createFailed") =>
        /\ ~isLoading
        /\ Len(messages) >= 2
        /\ messages[Len(messages) - 1].type = "user"
        /\ messages[Len(messages)].type = "bot"
        /\ messages[Len(messages)].content = Apology
        /\ ~messages[Len(messages)].isLoading

\* C5 (amended): handling a failure always leaves submitting false and no
\* turn pending and issues no remote call and creates no session; when no
\* reset came between the submit and the failure, the last two turns are the
\* user turn of that submission (text X, or X rewritten by regenerate) and
\* its assistant turn holding the apology, not pending.
C5_FailureOutcomeUnlessReset ==
    [][ (FailStep \/ CreateFailedStep) =>
          /\ ~isLoading'
          /\ Pending(messages') = {}
          /\ calls' \subseteq calls
          /\ nSessions' = nSessions
          /\ ~last'.stale =>
                /\ Len(messages') >= 2
                /\ messages'[Len(messages') - 1].type = "user"
                /\ messages'[Len(messages') - 1].content
                      \in {last'.text, Regenerated(last'.text)}
                /\ messages'[Len(messages')].type = "bot"
                /\ messages'[Len(messages')].content = Apology
                /\ ~messages'[Len(messages')].isLoading
      ]_vars

C5_Witness ==
    /\ last.op = "fail" /\ ~last.stale
    /\ messages[Len(messages)].content = Apology
    /\ messages[Len(messages) - 1].content = last.text

\* C6: a submit from an empty transcript answered with text R, with no reset,
\* regenerate, feedback or further submit in between, ends with exactly two
\* turns, the user turn holding the trimmed text and the assistant turn
\* holding R and not pending, and with submitting false.
C6_SuccessfulExchange ==
    [][ (/\ RespondStep
         /\ last.op = "submit" /\ last.outcome \in {"created", "reused"}
         /\ Len(messages) = 2) =>
          /\ Len(messages') = 2
          /\ messages'[1].type = "user"
          /\ IsTrimOf(messages'[1].content, last.raw)
          /\ messages'[1].content # <<>>
          /\ messages'[2].type = "bot"
          /\ messages'[2].content = last'.raw
          /\ ~messages'[2].isLoading
          /\ ~isLoading'
      ]_vars

C6_Witness ==
    /\ last.op = "respond" /\ ~last.stale /\ last.raw = <<"b">>
    /\ nOps = 1
    /\ Len(messages) = 2
    /\ messages[1].content = <<"a">> /\ messages[2].content = <<"b">>
    /\ ~isLoading

\* C7: if every remote call eventually settles, every state with a submission
\* awaiting its response is followed by a state with submitting false and no
\* pending turn.
C7_GuaranteedCleanup ==
    (isLoading \/ calls # {}) ~> (~isLoading /\ Pending(messages) = {} /\ calls = {})

C7_Witness ==
    /\ last.op \in {"respond", "fail"} /\ last.stale
    /\ ~isLoading /\ Pending(messages) = {} /\ calls = {}

\* C8: at most one turn is pending in every reachable state, and a submit
\* invoked while a submission is in flight leaves the transcript, submitting
\* and the session handle unchanged.
C8_AtMostOnePending ==
    /\ [](Cardinality(Pending(messages)) <= 1)
    /\ [][ (SubmitStep /\ calls # {}) =>
             UNCHANGED <<messages, isLoading, chatRef>> ]_vars

C8_Witness ==
    /\ last.op = "submit" /\ last.outcome = "rejected"
    /\ ~AllBlank(last.raw)
    /\ Cardinality(Pending(messages)) = 1
    /\ calls # {}

\* C9: never are two remote send calls outstanding, and a submit arriving
\* while one is outstanding neither adds a call nor removes the one in flight.
C9_OneOutstandingCall ==
    /\ [](Cardinality(calls) <= 1)
    /\ [][ (SubmitStep /\ calls # {}) => calls' = calls ]_vars

C9_Witness ==
    /\ last.op = "submit" /\ last.outcome = "rejected"
    /\ ~AllBlank(last.raw)
    /\ \E c \in calls : c.stale

\* C10: a submit whose text is empty or only whitespace leaves the input, the
\* transcript, submitting and the session handle unchanged, creates no session
\* and issues no remote call.
C10_BlankSubmitNoOp ==
    [][ (SubmitStep /\ AllBlank(message)) =>
          UNCHANGED <<message, messages, isLoading, chatRef, calls, nSessions>>
      ]_vars

C10_Witness ==
    /\ last.op = "submit" /\ last.outcome = "rejected"
    /\ last.raw # <<>> /\ AllBlank(last.raw)
    /\ ~isLoading /\ calls = {}

\* C11: a session is created only by an accepted submit that finds no handle,
\* one session per such submit, and the handle becomes that new session; a
\* submit that finds a handle keeps it and creates nothing; the handle
\* otherwise changes only by a reset, which drops it; no handle exists while
\* no session has been created.
C11_LazySingleCreation ==
    /\ [](nSessions = 0 => chatRef = NoChat)
    /\ [][ /\ nSessions' # nSessions =>
                /\ SubmitStep /\ last'.outcome = "created"
                /\ chatRef = NoChat
                /\ nSessions' = nSessions + 1
                /\ chatRef' = nSessions'
           /\ (SubmitStep /\ chatRef # NoChat) =>
                (chatRef' = chatRef /\ nSessions' = nSessions)
           /\ chatRef' # chatRef =>
                \/ nSessions' = nSessions + 1
                \/ (last'.op = "reset" /\ chatRef' = NoChat)
      ]_vars

C11_Witness ==
    /\ last.op = "submit" /\ last.outcome = "reused"
    /\ chatRef = 1 /\ nSessions = 1
    /\ \E c \in calls : c.session = 1

FeedbackStep == nOps' = nOps + 1 /\ last'.op = "feedback"

\* the step is a toggle that follows a toggle of the same turn id
SecondToggle == FeedbackStep /\ last.op = "feedback" /\ last.id = last'.id

Targets(msgs, messageId) == {i \in 1..Len(msgs) : msgs[i].id = messageId}

\* C12 (as stated): toggleFeedback(id, K) applied twice in a row leaves the
\* feedback of the turn absent.
C12_ToggleTwiceAbsent ==
    [][ (SecondToggle /\ last.kind = last'.kind) =>
          \A i \in Targets(messages, last'.id) : messages'[i].feedback = "absent"
      ]_vars

\* C12 (amended): toggleFeedback(id, K) applied twice in a row leaves the
\* feedback absent when it was not K before the two toggles, and K when it
\* was K; toggleFeedback(id, Like) then toggleFeedback(id, Dislike) leaves
\* Dislike, and symmetrically; a turn's feedback is always one of absent,
\* Like, Dislike.
C12_FeedbackToggle ==
    /\ [](\A i \in 1..Len(messages) :
              messages[i].feedback \in {"absent", "Like", "Dislike"})
    /\ [][ /\ (SecondToggle /\ last.kind = last'.kind) =>
                \A i \in Targets(messages, last'.id) :
                    messages'[i].feedback =
                        IF last.was[i] = last'.kind THEN last'.kind ELSE "absent"
           /\ (SecondToggle /\ last.kind # last'.kind) =>
                \A i \in Targets(messages, last'.id) :
                    messages'[i].feedback = last'.kind
       ]_vars

C12_Witness ==
    /\ last.op = "feedback" /\ last.id = 2 /\ last.kind = "Like"
    /\ nOps = 2
    /\ last.was[2] = "Like"
    /\ messages[2].feedback = "absent"

RegenerateStep == nOps' = nOps + 1 /\ last'.op = "regenerate"

\* the step is a regenerate that follows a regenerate of the same turn id
SecondRegenerate == RegenerateStep /\ last.op = "regenerate" /\ last.id = last'.id

HasPrefix(s, pre) == Len(s) >= Len(pre) /\ SubSeq(s, 1, Len(pre)) = pre

OneMarkerPrefix(s) ==
    /\ HasPrefix(s, Marker)
    /\ ~HasPrefix(SubSeq(s, Len(Marker) + 1, Len(s)), Marker)

\* C13: for every Assistant content, regenerate(id) applied twice in a row
\* yields content that begins with exactly one marker prefix and equals the
\* content after the first application.
C13_RegenerateIdempotent ==
    [][ SecondRegenerate =>
          \A i \in Targets(messages, last'.id) :
              messages[i].type = "bot" =>
                  /\ messages'[i].content = messages[i].content
                  /\ OneMarkerPrefix(messages'[i].content)
      ]_vars

\* the step is a handleNewChat taken in the very state a handleNewChat left
SecondReset == last' # last /\ last'.op = "reset" /\ last'.outcome = "again"

\* C14: a reset that follows a reset immediately leaves the turns, the
\* submitting flag, the session handle and the input text exactly as the
\* first reset left them.
C14_ResetIdempotent ==
    [][ SecondReset =>
          UNCHANGED <<messages, isLoading, chatRef, message, calls, nSessions>>
      ]_vars

\* two resets in a row while a call is outstanding
C14_Witness ==
    /\ last.op = "reset" /\ last.outcome = "again"
    /\ isLoading /\ calls # {}
    /\ messages = <<>> /\ chatRef = NoChat /\ message = <<>>

ShareStep == last' # last /\ last'.op = "share"

\* C15: for every way the share call or the clipboard write settles,
\* share(text) ends with no unhandled rejection and leaves the turns, the
\* submitting flag and the session handle unchanged.
C15_ShareNeverThrows ==
    [][ ShareStep =>
          /\ last'.outcome # "unhandledRejection"
          /\ UNCHANGED <<messages, isLoading, chatRef>>
      ]_vars

\* C16: regenerate(id) changes the content of the Assistant turn with that
\* id and nothing else: no id, role, pending flag or feedback changes, no
\* turn with another id or of role User changes, and the input text, the
\* submitting flag, the session handle and the remote calls stay as they
\* are.
C16_RegenerateLocalised ==
    [][ RegenerateStep =>
          /\ Len(messages') = Len(messages)
          /\ \A i \in 1..Len(messages) :
                 /\ [messages'[i] EXCEPT !.content = <<>>] =
                        [messages[i] EXCEPT !.content = <<>>]
                 /\ messages'[i].content # messages[i].content =>
                        messages[i].type = "bot" /\ messages[i].id = last'.id
          /\ UNCHANGED <<message, isLoading, chatRef, calls, nSessions>>
      ]_vars

\* the step is a handleNewChat that changed something
ResetStep == last' # last /\ last'.op = "reset"

\* the turns of before the step are still there, in place, with the same
\* ids and roles
PrefixKept ==
    /\ Len(messages') >= Len(messages)
    /\ \A i \in 1..Len(messages) :
           /\ messages'[i].id = messages[i].id
           /\ messages'[i].type = messages[i].type

\* C17: every operation but reset (typing, submit, remote success, remote
\* failure, regenerate, feedback, copy, share) keeps the turns it found as
\* a prefix of the sequence, with the same ids and roles in the same
\* order; reset removes turns, and removes all of them.
C17_NoIndividualDeletion ==
    [][ IF ResetStep THEN messages' = <<>> ELSE PrefixKept ]_vars

\* a share after a submit that appended to the seeded turns
C17_Witness ==
    /\ last.op = "share"
    /\ Len(messages) = 4
    /\ messages[1].id = 1 /\ messages[2].id = 2
    /\ messages[3].type = "user" /\ messages[4].type = "bot"

\* C18: a turn has empty content only if it is an Assistant turn that is
\* pending; every User turn and every resolved Assistant turn has
\* non-empty content, whatever text the remote call returns.
C18_ContentNonEmpty ==
    \A i \in 1..Len(messages) :
        messages[i].content = <<>> =>
            /\ messages[i].type = "bot"
            /\ messages[i].isLoading

\* C19: the ids of the turns are non-decreasing along the sequence.
C19_IdsNonDecreasing ==
    \A i, j \in 1..Len(messages) : i < j => messages[i].id <= messages[j].id

\* the step called ai.chats.create
CreationStep == SubmitStep /\ last'.outcome \in {"created", "createFailed"}

\* C20: after a reset, every submission is sent to a session created after
\* that reset, never to a handle that a reset discarded, and the first
\* call of ai.chats.create after the reset is given an empty history.
C20_ResetForgets ==
    /\ [](\A c \in calls : ~c.stale =>
              \A d \in dropped : c.session > d)
    /\ [](chatRef # NoChat => \A d \in dropped : chatRef > d)
    /\ [][ \A c \in calls' \ calls : ~c.stale =>
               /\ c.session = chatRef'
               /\ \A d \in dropped' : c.session > d
       ]_vars
    /\ [][ (CreationStep /\ fresh) => last'.history = <<>> ]_vars

\* a submission sent to the second session after a reset discarded the first
C20_Witness ==
    /\ dropped = {1}
    /\ \E c \in calls : ~c.stale /\ c.session = 2
    /\ last.op = "submit" /\ last.outcome = "created" /\ last.history = <<>>

\* the step settles a call that was outstanding when handleNewChat ran
StaleSettleStep == \E c \in calls : c.stale /\ calls' = calls \ {c}

\* C21: when a call that a reset overtook settles, with a response or with
\* a failure, the turns stay exactly as they were just before: no turn is
\* added and no turn of a later submission is resolved with its result.
C21_StaleResultIgnored ==
    [][ StaleSettleStep => messages' = messages ]_vars

\* the response of an overtaken call has arrived and the reset transcript
\* is still empty
C21_Witness ==
    /\ last.op = "respond" /\ last.stale /\ last.raw = <<"b">>
    /\ messages = <<>> /\ calls = {} /\ ~isLoading

\* C22: the turns have even length and alternate User, Assistant starting
\* with User, so that every Assistant turn stands right after the User
\* turn it was appended with; a pending turn, when there is one, is the
\* last turn.
C22_TranscriptShape ==
    /\ Len(messages) % 2 = 0
    /\ \A i \in 1..Len(messages) :
           /\ messages[i].type = IF i % 2 = 1 THEN "user" ELSE "bot"
           /\ messages[i].isLoading => i = Len(messages)

\* a third exchange is pending behind two resolved ones
C22_Witness ==
    /\ Len(messages) = 6
    /\ messages[6].isLoading /\ ~messages[4].isLoading
    /\ messages[5].type = "user" /\ messages[5].content = last.text
    /\ last.op = "submit"

====
